---- MODULE Spec2Model ----
(***************************************************************************)
(* Model of the bo_report repository.                                      *)
(*                                                                         *)
(*   modules/read_bo.py       read_bo -> process_data -> export_to_csv     *)
(*   modules/update_sheets.py get_credentials, convert_to_serializable,    *)
(*                            generate_values_from_df, write_data_to_sheets*)
(*                            update_googlesheets_from_csv                 *)
(*                                                                         *)
(* A DataFrame is a record [none, rows]: none = TRUE is Python's None (the *)
(* value a stage returns after it swallowed an exception), rows is the     *)
(* sequence of the frame's rows.                                           *)
(***************************************************************************)
EXTENDS Integers, Sequences, FiniteSets, TLC

VARIABLES
    pc,            \* position of the running entry point
    src,           \* the Excel report on disk: [readable, rows]
    df,            \* read_bo.py __main__: df
    processed_df,  \* read_bo.py __main__: processed_df
    csv,           \* processed_bo.csv on disk: [exists, rows]
    token,         \* token.json on disk: [exists, creds]
    issued,        \* number of access grants the authorization server made
    run,           \* the last call of get_credentials, as it went
    pub,           \* the last call of update_googlesheets_from_csv, as it went
    sheet,         \* the remote range Sheet1!A1: [written, rows]
    frame,         \* the DataFrame handed to generate_values_from_df
    values         \* what generate_values_from_df returned

mainVars == <<src, df, processed_df>>
pubVars == <<token, issued, run, pub, sheet>>
convVars == <<frame, values>>
vars == <<pc, src, df, processed_df, csv, token, issued, run, pub, sheet, frame,
          values>>

----------------------------------------------------------------------------
(* Bounds of the model *)

MaxRows == 2        \* rows of a raw table
TicksPerDay == 2    \* timestamps per calendar day (time of day of a date)
MaxIssued == 3      \* access grants made in one behaviour
MaxFrameRows == 1   \* rows of a frame handed to generate_values_from_df

----------------------------------------------------------------------------
(* Cell values *)

\* An empty cell of a text column (pandas reads it as NaN).  Text of the
\* Nationality column is a sequence of characters, other text a string.
NaN == << >>
NaNStr == ""
\* "Funnel SO No" of a row without an order number.
NoSO == 0
\* "Probability 90% Date": a timestamp (a natural number of ticks), an empty
\* cell (NaT after the cast) or text that is no date.
NaT == -1
Unparseable == -2

None == [none |-> TRUE, rows |-> << >>]
Frame(rows) == [none |-> FALSE, rows |-> rows]

----------------------------------------------------------------------------
(* str.title(), character by character *)

Letters == {"a", "b", "d", "j", "x", "y", "A", "B", "D", "J", "X", "Y"}

upper(c) ==
    CASE c = "a" -> "A" [] c = "b" -> "B" [] c = "d" -> "D"
      [] c = "j" -> "J" [] c = "x" -> "X" [] c = "y" -> "Y"
      [] OTHER -> c

lower(c) ==
    CASE c = "A" -> "a" [] c = "B" -> "b" [] c = "D" -> "d"
      [] c = "J" -> "j" [] c = "X" -> "x" [] c = "Y" -> "y"
      [] OTHER -> c

\* A letter that follows a non-letter (or starts the text) is upper-cased,
\* every other letter is lower-cased; title() of NaN is NaN.
title(s) ==
    [i \in 1..Len(s) |->
        IF i = 1 \/ s[i - 1] \notin Letters THEN upper(s[i]) ELSE lower(s[i])]

----------------------------------------------------------------------------
(* Ordering of group keys (groupby sorts its groups) *)

\* code point order of the characters in use
ord(c) ==
    CASE c = " " -> 32
      [] c = "A" -> 65 [] c = "B" -> 66 [] c = "D" -> 68
      [] c = "J" -> 74 [] c = "X" -> 88 [] c = "Y" -> 89
      [] c = "a" -> 97 [] c = "b" -> 98 [] c = "d" -> 100
      [] c = "j" -> 106 [] c = "x" -> 120 [] c = "y" -> 121

RECURSIVE TextLess(_, _)
TextLess(s, t) ==
    IF t = << >> THEN FALSE
    ELSE IF s = << >> THEN TRUE
    ELSE IF ord(Head(s)) # ord(Head(t)) THEN ord(Head(s)) < ord(Head(t))
    ELSE TextLess(Tail(s), Tail(t))

\* the categorical strings in use, in lexical order
StrOrder == <<"100Mbps", "24", "DEALER", "INSIDE SALES", "ONLINE", "RETAIL", "Selangor">>
StrRank(s) == CHOOSE i \in 1..Len(StrOrder) : StrOrder[i] = s

KeyOf(r) == [channel |-> r.channel, state |-> r.state, period |-> r.period,
             bandwidth |-> r.bandwidth, nationality |-> r.nationality]

KeyLess(k1, k2) ==
    IF k1.channel # k2.channel THEN StrRank(k1.channel) < StrRank(k2.channel)
    ELSE IF k1.state # k2.state THEN StrRank(k1.state) < StrRank(k2.state)
    ELSE IF k1.period # k2.period THEN StrRank(k1.period) < StrRank(k2.period)
    ELSE IF k1.bandwidth # k2.bandwidth
         THEN StrRank(k1.bandwidth) < StrRank(k2.bandwidth)
    ELSE TextLess(k1.nationality, k2.nationality)

RECURSIVE SortKeys(_)
SortKeys(S) ==
    IF S = {} THEN << >>
    ELSE LET m == CHOOSE k \in S : \A o \in S \ {k} : KeyLess(k, o)
         IN  <<m>> \o SortKeys(S \ {m})

----------------------------------------------------------------------------
(* process_data, stage by stage (read_bo.py lines 32-57) *)

AllowedChannels == {"ONLINE", "INSIDE SALES", "DEALER"}

DayOf(t) == t \div TicksPerDay
DayStart(d) == d * TicksPerDay

\* df.loc[(df["Funn Status"] != "Lost") & (df[" Channel"].isin([...]))]
Passes(r) == r.status # "Lost" /\ r.channel \in AllowedChannels
loc_filter(rows) == SelectSeq(rows, Passes)

\* .astype({"Probability 90% Date": "datetime64[ns]"}) raises on text that is
\* no date; an empty cell becomes NaT.
astype_raises(rows) == \E i \in 1..Len(rows) : rows[i].date = Unparseable

\* df["Nationality"].str is taken of the whole raw frame: a column that holds
\* no text at all (every cell empty) is a float column and has no .str.
str_raises(rows) ==
    Len(rows) > 0 /\ \A i \in 1..Len(rows) : rows[i].nationality = NaN

\* .assign(Nationality=df["Nationality"].str.title())
assign_title(rows) ==
    [i \in 1..Len(rows) |-> [rows[i] EXCEPT !.nationality = title(@)]]

\* .dropna(subset="Probability 90% Date")
HasDate(r) == r.date # NaT
dropna(rows) == SelectSeq(rows, HasDate)

\* groupby([...]) leaves out every row with a missing value in a key column
\* (dropna=True is the default) and orders the groups by key.
HasKey(r) ==
    /\ r.channel # NaNStr /\ r.state # NaNStr /\ r.period # NaNStr
    /\ r.bandwidth # NaNStr /\ r.nationality # NaN
GroupKeys(rows) == {KeyOf(rows[i]) : i \in {j \in 1..Len(rows) : HasKey(rows[j])}}

Members(rows, k) == {i \in 1..Len(rows) : KeyOf(rows[i]) = k}

MinDay(rows, k) ==
    CHOOSE d \in {DayOf(rows[i].date) : i \in Members(rows, k)} :
        \A i \in Members(rows, k) : d <= DayOf(rows[i].date)
MaxDay(rows, k) ==
    CHOOSE d \in {DayOf(rows[i].date) : i \in Members(rows, k)} :
        \A i \in Members(rows, k) : d >= DayOf(rows[i].date)

\* .count() counts the cells of "Funnel SO No" that are not empty
count(rows, k, d) ==
    Cardinality({i \in Members(rows, k) :
                    DayOf(rows[i].date) = d /\ rows[i].so # NoSO})

\* .resample("d")["Funnel SO No"].count() of one group: one bucket for every
\* day from the group's first to its last day
resample_count(rows, k) ==
    [n \in 1..(MaxDay(rows, k) - MinDay(rows, k) + 1) |->
        [channel |-> k.channel, state |-> k.state, period |-> k.period,
         bandwidth |-> k.bandwidth, nationality |-> k.nationality,
         date |-> DayStart(MinDay(rows, k) + n - 1),
         count |-> count(rows, k, MinDay(rows, k) + n - 1)]]

RECURSIVE ConcatGroups(_, _)
ConcatGroups(rows, keys) ==
    IF keys = << >> THEN << >>
    ELSE resample_count(rows, Head(keys)) \o ConcatGroups(rows, Tail(keys))

\* .groupby(...).resample("d")["Funnel SO No"].count().reset_index()
reset_index(rows) == ConcatGroups(rows, SortKeys(GroupKeys(rows)))

\* With no group at all (no row left, or none with a complete key) the
\* counted Series comes back empty, without the key levels and without its
\* name; reset_index() then names the column 0 and
\* query("`Funnel SO No` > 0") raises on the unknown column.
query_raises(rows) == GroupKeys(rows) = {}

\* .query("`Funnel SO No` > 0")
Positive(r) == r.count > 0
\* (the same without the test on the count)
query_keeps_zero(rows) == rows
query(rows) == SelectSeq(rows, Positive)

\* sort_values("Probability 90% Date", ascending=...): an insertion sort (what
\* the default kind does on short arrays); descending order is the ascending
\* argsort of the reversed frame, reversed.
Reverse(s) == [i \in 1..Len(s) |-> s[Len(s) + 1 - i]]

RECURSIVE Insert(_, _)
Insert(s, r) ==
    IF s = << >> THEN <<r>>
    ELSE IF s[Len(s)].date <= r.date THEN Append(s, r)
    ELSE Append(Insert(SubSeq(s, 1, Len(s) - 1), r), s[Len(s)])

RECURSIVE SortAsc(_)
SortAsc(s) ==
    IF s = << >> THEN << >>
    ELSE Insert(SortAsc(SubSeq(s, 1, Len(s) - 1)), s[Len(s)])

\* (the same with the ascending argument ignored)
sort_values_descending(rows, ascending) == Reverse(SortAsc(Reverse(rows)))
sort_values(rows, ascending) ==
    IF ascending THEN SortAsc(rows) ELSE Reverse(SortAsc(Reverse(rows)))

\* the chained expression of lines 32-55
Chain(rows) ==
    sort_values(query(reset_index(dropna(assign_title(loc_filter(rows))))), FALSE)

\* process_data(df): any exception is caught, logged and None is returned
process_data(d) ==
    IF d.none THEN None
    ELSE IF astype_raises(loc_filter(d.rows)) THEN None
    ELSE IF str_raises(d.rows) THEN None
    ELSE IF query_raises(dropna(assign_title(loc_filter(d.rows)))) THEN None
    ELSE Frame(sort_values(Chain(d.rows), TRUE))

----------------------------------------------------------------------------
(* read_bo and export_to_csv *)

\* read_bo(file_path): the frame, or None after a logged exception
read_bo(file) == IF file.readable THEN Frame(file.rows) ELSE None

\* export_to_csv(df, file_path): df.to_csv raises on None (AttributeError) and
\* when the file cannot be opened; both are caught and the file is untouched.
\* (the same with the file opened before the frame is used)
export_to_csv_truncating(d, file, writable) ==
    IF ~writable THEN file
    ELSE [exists |-> TRUE, rows |-> IF d.none THEN << >> ELSE d.rows]
export_to_csv(d, file, writable) ==
    IF d.none \/ ~writable THEN file
    ELSE [exists |-> TRUE, rows |-> d.rows]

----------------------------------------------------------------------------
(* Inputs *)

Timestamps == {2, 3, 6}
Nationalities == {<<"j", " ", "d">>, <<"J", " ", "D">>, <<"x", "y">>, NaN}

\* rows that vary what the filter reads, and rows that pass the filter and
\* vary what the aggregation reads
FilterRows ==
    [status : {"Open", "Lost"}, channel : {"ONLINE", "RETAIL"},
     state : {"Selangor"}, period : {"24"}, bandwidth : {"100Mbps"},
     nationality : {<<"j", " ", "d">>}, so : {1}, date : {2, Unparseable}]
KeyRows ==
    [status : {"Open"}, channel : {"ONLINE"},
     state : {"Selangor"}, period : {"24"}, bandwidth : {"100Mbps"},
     nationality : Nationalities, so : {1, NoSO},
     date : Timestamps \cup {NaT, Unparseable}]
RawRows == FilterRows \cup KeyRows

RECURSIVE Tables(_)
Tables(n) ==
    IF n = 0 THEN {<< >>}
    ELSE Tables(n - 1) \cup
         {Append(t, r) : t \in {u \in Tables(n - 1) : Len(u) = n - 1}, r \in RawRows}

\* the output file of an earlier, good run
PrevCsv ==
    [exists |-> TRUE,
     rows |-> <<[channel |-> "ONLINE", state |-> "Selangor", period |-> "24",
                 bandwidth |-> "100Mbps", nationality |-> <<"X", "y">>,
                 date |-> 0, count |-> 1]>>]
NoCsv == [exists |-> FALSE, rows |-> << >>]

----------------------------------------------------------------------------
(* update_sheets.py: credentials *)

\* Credentials: token = an access token is present, expired = its expiry has
\* passed, refresh_token = a refresh token is present, id = the grant it is of.
NoCreds == [some |-> FALSE, token |-> FALSE, expired |-> FALSE,
            refresh_token |-> FALSE, id |-> 0]
Creds(t, e, r, n) == [some |-> TRUE, token |-> t, expired |-> e,
                      refresh_token |-> r, id |-> n]
NoToken == [exists |-> FALSE, creds |-> NoCreds]

\* Credentials.valid
valid(c) == c.token /\ ~c.expired

\* save_credentials(creds): token.json is rewritten, unless it cannot be
\* opened for writing.
save_credentials(c, file, saveOK) ==
    IF saveOK THEN [exists |-> TRUE, creds |-> c] ELSE file

\* get_credentials(path_to_credentials), given what the outside world does:
\* refreshOK (the refresh request succeeds), flowOK (the user completes the
\* login), flowRT (the grant carries a refresh token), saveOK.  n is the id of
\* a new grant.  Returns how the call went: interactive = the login flow was
\* started, returned = it returned creds (else an exception left it), after =
\* token.json afterwards.
\* (the same with save_credentials called in the login branch only)
get_credentials_no_save_on_refresh(file, n, refreshOK, flowOK, flowRT, saveOK) ==
    LET cached == IF file.exists THEN file.creds ELSE NoCreds
        Went(i, ret, c, f) ==
            [called |-> TRUE, before |-> file, interactive |-> i,
             returned |-> ret, creds |-> c, after |-> f]
    IN  IF cached.some /\ valid(cached) THEN Went(FALSE, TRUE, cached, file)
        ELSE IF cached.some /\ cached.expired /\ cached.refresh_token
        THEN IF refreshOK
             THEN Went(FALSE, TRUE, Creds(TRUE, FALSE, TRUE, n), file)
             ELSE Went(FALSE, FALSE, NoCreds, file)
        ELSE IF ~flowOK THEN Went(TRUE, FALSE, NoCreds, file)
        ELSE IF ~saveOK THEN Went(TRUE, FALSE, NoCreds, file)
        ELSE Went(TRUE, TRUE, Creds(TRUE, FALSE, flowRT, n),
                  save_credentials(Creds(TRUE, FALSE, flowRT, n), file, saveOK))

get_credentials(file, n, refreshOK, flowOK, flowRT, saveOK) ==
    LET cached == IF file.exists THEN file.creds ELSE NoCreds
        Went(i, ret, c, f) ==
            [called |-> TRUE, before |-> file, interactive |-> i,
             returned |-> ret, creds |-> c, after |-> f]
    IN  IF cached.some /\ valid(cached) THEN Went(FALSE, TRUE, cached, file)
        ELSE IF cached.some /\ cached.expired /\ cached.refresh_token
        THEN IF ~refreshOK THEN Went(FALSE, FALSE, NoCreds, file)
             ELSE IF ~saveOK THEN Went(FALSE, FALSE, NoCreds, file)
             ELSE Went(FALSE, TRUE, Creds(TRUE, FALSE, TRUE, n),
                       save_credentials(Creds(TRUE, FALSE, TRUE, n), file, saveOK))
        ELSE IF ~flowOK THEN Went(TRUE, FALSE, NoCreds, file)
        ELSE IF ~saveOK THEN Went(TRUE, FALSE, NoCreds, file)
        ELSE Went(TRUE, TRUE, Creds(TRUE, FALSE, flowRT, n),
                  save_credentials(Creds(TRUE, FALSE, flowRT, n), file, saveOK))

NotRun == [called |-> FALSE, before |-> NoToken, interactive |-> FALSE,
           returned |-> FALSE, creds |-> NoCreds, after |-> NoToken]

----------------------------------------------------------------------------
(* update_sheets.py: cells and their conversion *)

\* A cell value: its Python type, whether it is a NaN, and a payload.
Cell(t, n, v) == [type |-> t, nan |-> n, v |-> v]
EmptyString == Cell("str", FALSE, 0)

\* pd.isna(val)
isna(val) == val.type \in {"NoneType", "NaTType", "NAType"} \/ val.nan

\* convert_to_serializable(val): the isinstance chain in its order; float()
\* of a NaN is a NaN.
convert_to_serializable(val) ==
    IF val.type = "np.int64" THEN Cell("int", FALSE, val.v)
    ELSE IF val.type = "np.float64" THEN Cell("float", val.nan, val.v)
    ELSE IF val.type = "np.ndarray" THEN Cell("list", FALSE, val.v)
    ELSE IF val.type = "np.bool_" THEN Cell("bool", FALSE, val.v)
    ELSE IF isna(val) THEN EmptyString
    ELSE val

\* df.columns.tolist() of the two-column frames in use
Headers == <<Cell("str", FALSE, 101), Cell("str", FALSE, 102)>>

\* generate_values_from_df(df): the header row, then every row converted
generate_values_from_df(rows) ==
    <<Headers>> \o
    [i \in 1..Len(rows) |->
        [j \in 1..Len(rows[i]) |-> convert_to_serializable(rows[i][j])]]

\* generate_body(values)
generate_body(vals) == [values |-> vals]

----------------------------------------------------------------------------
(* update_sheets.py: the publisher *)

\* write_data_to_sheets(creds, spreadsheet_id, range_name, body), given what
\* the remote call does: "ok", "HttpError" (caught and returned) or
\* "OtherError" (any other exception, not caught).
write_data_to_sheets(remote, body) ==
    [raised |-> remote = "OtherError",
     error |-> remote = "HttpError",
     updatedCells |-> IF remote = "ok"
                      THEN Len(body.values) * Len(Headers) ELSE 0]

NotPublished == [called |-> FALSE, raised |-> FALSE, at |-> "", updatedCells |-> 0]
Published(r, a, n) == [called |-> TRUE, raised |-> r, at |-> a, updatedCells |-> n]
NoSheet == [written |-> FALSE, rows |-> << >>]

----------------------------------------------------------------------------
(* Inputs of update_sheets.py *)

TokenFiles ==
    {NoToken} \cup
    {[exists |-> TRUE, creds |-> Creds(t, e, r, 0)] : t, e, r \in BOOLEAN}

CsvFiles == {NoCsv, PrevCsv, [exists |-> TRUE, rows |-> << >>]}

Cells ==
    {Cell("np.int64", FALSE, 7), Cell("int", FALSE, 7),
     Cell("np.float64", FALSE, 2), Cell("np.float64", TRUE, 0),
     Cell("float", FALSE, 2), Cell("float", TRUE, 0),
     Cell("np.bool_", FALSE, 1), Cell("bool", FALSE, 1),
     Cell("np.ndarray", FALSE, 1), Cell("str", FALSE, 1),
     Cell("NoneType", FALSE, 0), Cell("NaTType", FALSE, 0),
     Cell("NAType", FALSE, 0)}

FrameRows == [1..Len(Headers) -> Cells]

RECURSIVE Frames(_)
Frames(n) ==
    IF n = 0 THEN {<< >>}
    ELSE Frames(n - 1) \cup
         {Append(t, r) : t \in {u \in Frames(n - 1) : Len(u) = n - 1}, r \in FrameRows}

----------------------------------------------------------------------------
(* The entry point of read_bo.py (lines 78-81) *)

Init ==
    /\ pc = "start"
    /\ src \in [readable : {TRUE}, rows : Tables(MaxRows)]
               \cup {[readable |-> FALSE, rows |-> << >>]}
    /\ df = None
    /\ processed_df = None
    /\ csv \in {NoCsv, PrevCsv}
    /\ token = NoToken /\ issued = 0 /\ run = NotRun
    /\ pub = NotPublished /\ sheet = NoSheet
    /\ frame = << >> /\ values = << >>

MainReadBo ==
    /\ pc = "start"
    /\ df' = read_bo(src)
    /\ pc' = "read"
    /\ UNCHANGED <<src, processed_df, csv, pubVars, convVars>>

MainProcessData ==
    /\ pc = "read"
    /\ processed_df' = process_data(df)
    /\ pc' = "processed"
    /\ UNCHANGED <<src, df, csv, pubVars, convVars>>

MainExportToCsv ==
    /\ pc = "processed"
    /\ \E writable \in BOOLEAN : csv' = export_to_csv(processed_df, csv, writable)
    /\ pc' = "done"
    /\ UNCHANGED <<src, df, processed_df, pubVars, convVars>>

Next == MainReadBo \/ MainProcessData \/ MainExportToCsv

Spec == Init /\ [][Next]_vars

----------------------------------------------------------------------------
(* Runs of update_sheets.py *)

InitPub ==
    /\ pc = "publisher"
    /\ src = [readable |-> FALSE, rows |-> << >>]
    /\ df = None
    /\ processed_df = None
    /\ csv \in CsvFiles
    /\ token \in TokenFiles /\ issued = 0 /\ run = NotRun
    /\ pub = NotPublished /\ sheet = NoSheet
    /\ frame = << >> /\ values = << >>

\* a call of get_credentials("credentials.json") on its own
GetCredentials ==
    /\ issued < MaxIssued
    /\ \E refreshOK, flowOK, flowRT, saveOK \in BOOLEAN :
          /\ run' = get_credentials(token, issued + 1, refreshOK, flowOK,
                                    flowRT, saveOK)
          /\ token' = run'.after
          /\ issued' = IF run'.returned /\ run'.creds.id = issued + 1
                       THEN issued + 1 ELSE issued
    /\ UNCHANGED <<pc, mainVars, csv, pub, sheet, convVars>>

\* update_googlesheets_from_csv(path_to_csv), lines 113-123: nothing in it is
\* inside a try, so an exception of get_credentials or read_csv leaves it;
\* result.get(...) raises AttributeError on the HttpError that
\* write_data_to_sheets returned.
UpdateGooglesheetsFromCsv ==
    /\ issued < MaxIssued
    /\ \E refreshOK, flowOK, flowRT, saveOK \in BOOLEAN :
       \E remote \in {"ok", "HttpError", "OtherError"} :
          LET went == get_credentials(token, issued + 1, refreshOK, flowOK,
                                      flowRT, saveOK)
              result == write_data_to_sheets(remote,
                            generate_body(<<Headers>> \o csv.rows))
          IN  /\ run' = went
              /\ token' = went.after
              /\ issued' = IF went.returned /\ went.creds.id = issued + 1
                           THEN issued + 1 ELSE issued
              /\ IF ~went.returned
                 THEN pub' = Published(TRUE, "get_credentials", 0)
                      /\ sheet' = sheet
                 ELSE IF ~csv.exists
                 THEN pub' = Published(TRUE, "read_csv", 0) /\ sheet' = sheet
                 ELSE IF result.raised
                 THEN pub' = Published(TRUE, "write_data_to_sheets", 0)
                      /\ sheet' = sheet
                 ELSE IF result.error
                 THEN pub' = Published(TRUE, "result.get", 0) /\ sheet' = sheet
                 ELSE /\ pub' = Published(FALSE, "", result.updatedCells)
                      /\ sheet' = [written |-> TRUE, rows |-> csv.rows]
    /\ UNCHANGED <<pc, mainVars, csv, convVars>>

\* time passes: the access token in token.json reaches its expiry
TokenExpires ==
    /\ token.exists /\ ~token.creds.expired
    /\ token' = [token EXCEPT !.creds.expired = TRUE]
    /\ UNCHANGED <<pc, mainVars, csv, issued, run, pub, sheet, convVars>>

\* the user removes token.json
TokenRemoved ==
    /\ token.exists
    /\ token' = NoToken
    /\ UNCHANGED <<pc, mainVars, csv, issued, run, pub, sheet, convVars>>

NextPub ==
    GetCredentials \/ UpdateGooglesheetsFromCsv \/ TokenExpires \/ TokenRemoved

SpecPub == InitPub /\ [][NextPub]_vars

----------------------------------------------------------------------------
(* Calls of generate_values_from_df *)

InitConv ==
    /\ pc = "frame"
    /\ src = [readable |-> FALSE, rows |-> << >>]
    /\ df = None
    /\ processed_df = None
    /\ csv = NoCsv
    /\ token = NoToken /\ issued = 0 /\ run = NotRun
    /\ pub = NotPublished /\ sheet = NoSheet
    /\ frame \in Frames(MaxFrameRows) /\ values = << >>

GenerateValuesFromDf ==
    /\ pc = "frame"
    /\ values' = generate_values_from_df(frame)
    /\ pc' = "values"
    /\ UNCHANGED <<mainVars, csv, pubVars, frame>>

NextConv == GenerateValuesFromDf

SpecConv == InitConv /\ [][NextConv]_vars

----------------------------------------------------------------------------
(* Properties of read_bo.py *)

Processed == pc \in {"processed", "done"}
Returned == Processed /\ ~processed_df.none

IsTimestamp(t) == t # NaT /\ t # Unparseable

RECURSIVE SumCounts(_)
SumCounts(rows) ==
    IF rows = << >> THEN 0 ELSE Head(rows).count + SumCounts(Tail(rows))

\* the raw rows an aggregated record o stands for: they pass the filter, have
\* o's key once the nationality is title-cased, and their date is on o's day
Matching(o) ==
    {i \in 1..Len(df.rows) :
        /\ Passes(df.rows[i])
        /\ IsTimestamp(df.rows[i].date)
        /\ KeyOf([df.rows[i] EXCEPT !.nationality = title(@)]) = KeyOf(o)
        /\ DayOf(df.rows[i].date) = DayOf(o.date)}

\* C1: every row of a returned table has as its count the number of raw rows
\* that pass the filter, have the row's 5-tuple key and fall on the row's day.
C1_CountIsNumberOfMatchingRows ==
    Returned =>
        \A j \in 1..Len(processed_df.rows) :
            processed_df.rows[j].count = Cardinality(Matching(processed_df.rows[j]))

\* the table with every date that cannot be parsed made null
Coerced(rows) ==
    [i \in 1..Len(rows) |->
        IF rows[i].date = Unparseable THEN [rows[i] EXCEPT !.date = NaT]
        ELSE rows[i]]

\* C2: a date that cannot be parsed is treated as a null date and only its
\* row is dropped: the result is the one process_data gives for the table
\* with those dates made null.
C2_UnparseableDateIsDroppedLikeNull ==
    (Processed /\ ~df.none) => processed_df = process_data(Frame(Coerced(df.rows)))

\* C3: a run in which read_bo or process_data returned no table ends with the
\* output file exactly as it was.
C3_FailedRunKeepsCsv ==
    [][(pc' = "done" /\ (df'.none \/ processed_df'.none)) => csv' = csv]_vars
\* process_data returned no table and the earlier output file is still there
C3_Witness ==
    pc = "done" /\ ~df.none /\ processed_df.none /\ csv = PrevCsv

Dates(rows) == [i \in 1..Len(rows) |-> rows[i].date]
\* the counted rows before either sort, in the order of reset_index
Unsorted == query(reset_index(dropna(assign_title(loc_filter(df.rows)))))

\* C7: a returned table is in non-decreasing order of date, and its dates are
\* the ones an ascending sort alone (without the descending one) gives.
C7_SortedByDate ==
    Returned =>
        /\ \A i, j \in 1..Len(processed_df.rows) :
              i < j => processed_df.rows[i].date <= processed_df.rows[j].date
        /\ Dates(processed_df.rows) = Dates(SortAsc(Unsorted))
\* the sort moved a row: the later group has the earlier date
C7_Witness ==
    /\ Returned
    /\ Len(processed_df.rows) = 2
    /\ processed_df.rows[1].date < processed_df.rows[2].date
    /\ Unsorted[1] = processed_df.rows[2]

\* C8: no row of a returned table has count 0, also when resampling made a
\* bucket for a day without rows.
C8_NoZeroCount ==
    Returned => \A j \in 1..Len(processed_df.rows) : processed_df.rows[j].count > 0
\* a returned table whose resampling made a bucket with count 0
C8_Witness ==
    /\ Returned
    /\ Len(processed_df.rows) > 0
    /\ \E j \in 1..Len(reset_index(dropna(assign_title(loc_filter(df.rows))))) :
          reset_index(dropna(assign_title(loc_filter(df.rows))))[j].count = 0

\* C10: the counts of a returned table add up to the number of raw rows that
\* pass the filter and have a date.
C10_CountsAddUpToSurvivingRows ==
    Returned =>
        SumCounts(processed_df.rows) =
            Cardinality({i \in 1..Len(df.rows) :
                            Passes(df.rows[i]) /\ IsTimestamp(df.rows[i].date)})

----------------------------------------------------------------------------
(* Properties of update_sheets.py *)

\* C4: every missing cell value is converted to the empty string, and no row
\* that generate_values_from_df produced carries a missing value.
C4_MissingBecomesEmptyString ==
    pc = "values" =>
        /\ \A i \in 1..Len(frame) : \A j \in 1..Len(frame[i]) :
              isna(frame[i][j]) => values[i + 1][j] = EmptyString
        /\ \A i \in 1..Len(values) : \A j \in 1..Len(values[i]) :
              ~isna(values[i][j])

\* C5: no exception leaves a stage; here, the publisher.
C5_NoExceptionLeavesAStage == pub.called => ~pub.raised

Refreshable(c) == c.expired /\ c.refresh_token

\* C9: after a call of get_credentials that returned credentials, token.json
\* holds them; the call started the interactive login exactly when the cache
\* was absent, or invalid and not refreshable.
C9_CacheHoldsCredentialsAndGatesLogin ==
    run.called =>
        /\ run.returned => (run.after.exists /\ run.after.creds = run.creds)
        /\ run.interactive <=>
              \/ ~run.before.exists
              \/ (~valid(run.before.creds) /\ ~Refreshable(run.before.creds))
\* an expired cached token was refreshed without a login and saved
C9_Witness ==
    /\ run.called /\ run.returned /\ ~run.interactive
    /\ run.before.exists /\ run.before.creds.expired
    /\ run.creds.id # run.before.creds.id
    /\ token = run.after

====
